---- MODULE Spec2Model ----
(***************************************************************************)
(* Model of the BrowseMate demo API: the in-memory user store              *)
(* (app/routers/users.py) and item store (app/routers/items.py), with the  *)
(* response validation of app/schemas/user.py and app/schemas/item.py.     *)
(*                                                                         *)
(* Python values are modelled as follows.  A value that may be None is     *)
(* wrapped: None is <<>> and a value v is <<v>>.  A dict with string keys  *)
(* is a TLA+ function with a set of strings as its domain.  The two        *)
(* module-level stores are dict[int, dict]; Python dicts keep insertion    *)
(* order, so a store is a sequence of entries [key, val].  A Decimal or    *)
(* float is a record [type, cents]; a member of the str-Enum ItemStatus is *)
(* a record [enum, value].  Every handler is an `async def` without an     *)
(* await in its body, so it runs to completion on the event loop: one      *)
(* handler call is one action.                                             *)
(***************************************************************************)
EXTENDS Integers, Sequences, FiniteSets, TLC

VARIABLES
  _fake_users_db,    \* users.py: dict[int, dict], insertion ordered
  _user_id_counter,  \* users.py: last user id handed out
  _fake_items_db,    \* items.py: dict[int, dict], insertion ordered
  _item_id_counter,  \* items.py: last item id handed out
  clock,             \* the value datetime.utcnow() returns
  req,               \* the body of the last request (empty when it had none)
  resp,              \* the response of the last request
  issued,            \* history: the ids successful creates returned, in order, per store
  deleted,           \* history: ids whose delete succeeded, per store
  created,           \* history: record returned by create, per id, while no
                     \* update, archive or delete was called on that id
  inflight,          \* per connection: the request the server has accepted
                     \* and not answered yet, and how far its handler is
  log,               \* history: the requests handled so far, in order, each
                     \* with its response status (kept in SpecLog only)
  heap               \* the objects of the items router: which object each
                     \* stored dict, each returned model and each of their
                     \* tags lists is (kept in SpecHeap only)

vars == <<_fake_users_db, _user_id_counter, _fake_items_db, _item_id_counter,
          clock, req, resp, issued, deleted, created, inflight, log, heap>>

userVars == <<_fake_users_db, _user_id_counter>>
itemVars == <<_fake_items_db, _item_id_counter>>

(***************************************************************************)
(* Bounds of the exploration.                                              *)
(***************************************************************************)
MaxUserId == 2
MaxItemId == 2
MaxClock == 1
NumClients == 2
MaxLog == 3
MaxReturned == 3

(***************************************************************************)
(* Python values.                                                          *)
(***************************************************************************)
None == <<>>
Some(v) == <<v>>
Val(o) == o[1]

EmptyDict == <<>>

\* mutant of DictUpdate: a key given with None does not overwrite
DictUpdate_skip_none(d, u) ==
  [k \in (DOMAIN d) \cup {j \in DOMAIN u : u[j] # None} |->
     IF k \in DOMAIN u /\ u[k] # None THEN u[k] ELSE d[k]]

\* d.update(u): keys of u overwrite, other keys of d stay
DictUpdate(d, u) ==
  [k \in (DOMAIN d) \cup (DOMAIN u) |-> IF k \in DOMAIN u THEN u[k] ELSE d[k]]

\* mutant of DictPop: the key stays in the dict
DictPop_keep(d, key) == d

\* d.pop(key, None): the dict without that key
DictPop(d, key) == [k \in (DOMAIN d) \ {key} |-> d[k]]

\* the keys of a store
StoreKeys(db) == {db[i].key : i \in DOMAIN db}

\* db[k]
StoreGet(db, k) == db[CHOOSE i \in DOMAIN db : db[i].key = k].val

\* list(db.values())
StoreValues(db) == [i \in DOMAIN db |-> db[i].val]

\* mutant of StoreSet: a present key is taken out and put last
StoreSet_to_end(db, k, v) ==
  Append(SelectSeq(db, LAMBDA e : e.key # k), [key |-> k, val |-> v])

\* db[k] = v: a present key keeps its position, a new key goes last
StoreSet(db, k, v) ==
  IF k \in StoreKeys(db)
  THEN [i \in DOMAIN db |-> IF db[i].key = k THEN [key |-> k, val |-> v] ELSE db[i]]
  ELSE Append(db, [key |-> k, val |-> v])

\* del db[k]
StoreDel(db, k) == SelectSeq(db, LAMBDA e : e.key # k)

\* s[a:b] for 0 <= a <= b: both ends are clamped to the length
Slice(s, a, b) ==
  LET lo == IF a < Len(s) THEN a ELSE Len(s)
      hi == IF b < Len(s) THEN b ELSE Len(s)
  IN [j \in 1..(hi - lo) |-> s[lo + j]]

\* the characters of the strings that are searched
Chars(s) ==
  CASE s = "a@x.com" -> <<"a", "@", "x", ".", "c", "o", "m">>
    [] s = "b@x.com" -> <<"b", "@", "x", ".", "c", "o", "m">>
    [] s = "alice"   -> <<"a", "l", "i", "c", "e">>
    [] s = "bob"     -> <<"b", "o", "b">>
    [] s = "A@X"     -> <<"A", "@", "X">>
    [] s = "LIC"     -> <<"L", "I", "C">>
    [] s = "b"       -> <<"b">>
    [] s = "zz"      -> <<"z", "z">>

UpperCase == <<"A", "B", "C", "I", "L", "X">>
LowerCase == <<"a", "b", "c", "i", "l", "x">>

\* str.lower(), on characters
lower(cs) ==
  [j \in DOMAIN cs |->
     IF \E k \in DOMAIN UpperCase : UpperCase[k] = cs[j]
     THEN LowerCase[CHOOSE k \in DOMAIN UpperCase : UpperCase[k] = cs[j]]
     ELSE cs[j]]

\* needle in hay, for two strings: a contiguous occurrence
StrIn(needle, hay) ==
  \E k \in 0..(Len(hay) - Len(needle)) :
     \A j \in DOMAIN needle : hay[k + j] = needle[j]

\* one filter line of a list handler, `if present: xs = [x for x in xs if
\* ...]`: raises holds the records for which evaluating the condition raises,
\* keep those for which it is true; err is set once an exception has left
\* the handler
FilterLine(xs, present, raises, keep) ==
  IF xs.err \/ ~present THEN xs
  ELSE IF \E j \in DOMAIN xs.list : xs.list[j] \in raises
       THEN [err |-> TRUE, list |-> <<>>]
       ELSE [err |-> FALSE, list |-> SelectSeq(xs.list, LAMBDA x : x \in keep)]

\* raise HTTPException(status_code, detail)
HTTPException(op, id, code, detail) ==
  [op |-> op, id |-> id, status |-> code, body |-> [detail |-> detail]]

\* an exception that is no HTTPException leaves the handler: the framework
\* answers 500 Internal Server Error
ServerError(op, id) ==
  [op |-> op, id |-> id, status |-> 500, body |-> [detail |-> "Internal Server Error"]]

Response(op, id, code, body) == [op |-> op, id |-> id, status |-> code, body |-> body]

(***************************************************************************)
(* app/schemas/user.py                                                     *)
(***************************************************************************)
UserResponseFields ==
  {"id", "email", "username", "full_name", "is_active", "created_at", "updated_at"}

\* UserCreate(**raw): full_name defaults to None, is_active to True
UserCreate(raw) ==
  DictUpdate([full_name |-> None, is_active |-> Some(TRUE)], raw)

UserUpdateFields == {"email", "username", "full_name", "is_active", "password"}

\* UserUpdate(**raw).model_dump(exclude_unset=True): the declared fields the
\* caller set, a null kept as None; a key that is no field of the model is
\* ignored
UserUpdate(raw) == [k \in (DOMAIN raw) \cap UserUpdateFields |-> raw[k]]

\* UserFilterParams(): every filter defaults to None
UserFilterParams(raw) ==
  DictUpdate([is_active |-> None, email_contains |-> None,
              username_contains |-> None], raw)

\* PaginationParams(): skip defaults to 0 and limit to 10
PaginationParams(raw) == DictUpdate([skip |-> 0, limit |-> 10], raw)

\* UserResponse(**d) validates: email, username and is_active are required
\* and not Optional, so None is rejected with a ValidationError
UserResponseValid(d) ==
  /\ d.email # None
  /\ d.username # None
  /\ d.is_active # None

\* the validated model: the declared fields, copied
UserResponse(d) == [f \in UserResponseFields |-> d[f]]

(***************************************************************************)
(* app/routers/users.py                                                    *)
(***************************************************************************)
\* mutant of create_user_scan: the username is not compared
RECURSIVE create_user_scan_email_only(_, _, _)
create_user_scan_email_only(values, body, i) ==
  IF i > Len(values) THEN None
  ELSE IF values[i].email = body.email THEN Some("Email already registered")
  ELSE create_user_scan_email_only(values, body, i + 1)

\* the duplicate scan of create_user: the detail of the first hit, or None
RECURSIVE create_user_scan(_, _, _)
create_user_scan(values, body, i) ==
  IF i > Len(values) THEN None
  ELSE IF values[i].email = body.email THEN Some("Email already registered")
  ELSE IF values[i].username = body.username THEN Some("Username already taken")
  ELSE create_user_scan(values, body, i + 1)

\* lines 77-90 of create_user, id being the counter after line 76
create_user_at(db, id, body, now) ==
  LET user_dict == [id |-> id,
                    email |-> body.email,
                    username |-> body.username,
                    full_name |-> body.full_name,
                    is_active |-> body.is_active,
                    created_at |-> now,
                    updated_at |-> None]
  IN [db |-> StoreSet(db, id, user_dict), counter |-> id,
      resp |-> IF UserResponseValid(user_dict)
               THEN Response("create_user", 0, 201, UserResponse(user_dict))
               ELSE ServerError("create_user", 0)]

\* mutant of create_user: the id is taken from the size of the store
create_user_reuse(db, counter, body, now) ==
  LET hit == create_user_scan(StoreValues(db), body, 1)
  IN IF hit # None
     THEN [db |-> db, counter |-> counter,
           resp |-> HTTPException("create_user", 0, 400, Val(hit))]
     ELSE create_user_at(db, Len(db) + 1, body, now)

\* mutant of create_user: the counter is incremented before the duplicate
\* scan, so a conflict uses up an id
create_user_count_first(db, counter, body, now) ==
  LET hit == create_user_scan(StoreValues(db), body, 1)
  IN IF hit # None
     THEN [db |-> db, counter |-> counter + 1,
           resp |-> HTTPException("create_user", 0, 400, Val(hit))]
     ELSE create_user_at(db, counter + 1, body, now)

create_user(db, counter, body, now) ==
  LET hit == create_user_scan(StoreValues(db), body, 1)
  IN IF hit # None
     THEN [db |-> db, counter |-> counter,
           resp |-> HTTPException("create_user", 0, 400, Val(hit))]
     ELSE create_user_at(db, counter + 1, body, now)

get_user(db, user_id) ==
  IF user_id \notin StoreKeys(db)
  THEN HTTPException("get_user", user_id, 404, "User not found")
  ELSE IF UserResponseValid(StoreGet(db, user_id))
       THEN Response("get_user", user_id, 200, UserResponse(StoreGet(db, user_id)))
       ELSE ServerError("get_user", user_id)

\* mutant of update_user_conflict: the loop compares with every stored user
\* but looks at the email only
update_user_conflict_email_only(db, user_id, update_data, field) ==
  /\ field = "email"
  /\ field \in DOMAIN update_data
  /\ \E i \in DOMAIN db :
       db[i].key # user_id /\ db[i].val[field] = update_data[field]

\* the two conflict loops of update_user
update_user_conflict(db, user_id, update_data, field) ==
  /\ field \in DOMAIN update_data
  /\ \E i \in DOMAIN db :
       db[i].key # user_id /\ db[i].val[field] = update_data[field]

update_user(db, body, user_id, now) ==
  IF user_id \notin StoreKeys(db)
  THEN [db |-> db, resp |-> HTTPException("update_user", user_id, 404, "User not found")]
  ELSE
    LET update_data == body    \* body.model_dump(exclude_unset=True)
    IN IF update_user_conflict(db, user_id, update_data, "email")
       THEN [db |-> db,
             resp |-> HTTPException("update_user", user_id, 400, "Email already registered")]
       ELSE IF update_user_conflict(db, user_id, update_data, "username")
       THEN [db |-> db,
             resp |-> HTTPException("update_user", user_id, 400, "Username already taken")]
       ELSE
         \* user_dict is the stored dict itself: update() and the
         \* updated_at assignment change the store before UserResponse runs
         LET user_dict ==
               [DictUpdate(StoreGet(db, user_id), DictPop(update_data, "password"))
                  EXCEPT !.updated_at = Some(now)]
         IN [db |-> StoreSet(db, user_id, user_dict),
             resp |-> IF UserResponseValid(user_dict)
                      THEN Response("update_user", user_id, 200, UserResponse(user_dict))
                      ELSE ServerError("update_user", user_id)]

\* lines 115-123 of list_users: the stored users that pass the filters.
\* is_active is compared when it is not None; the two substrings are
\* compared when they are truthy, and .lower() of a stored None raises
list_users_filter(db, filters) ==
  LET all == {db[i].val : i \in DOMAIN db}
      l0 == [err |-> FALSE, list |-> StoreValues(db)]
      l1 == FilterLine(l0, filters.is_active # None,
                       {},
                       {u \in all : u.is_active = filters.is_active})
      l2 == FilterLine(l1, filters.email_contains # None /\ Val(filters.email_contains) # "",
                       {u \in all : u.email = None},
                       {u \in all : /\ u.email # None
                                    /\ StrIn(lower(Chars(Val(filters.email_contains))),
                                             lower(Chars(Val(u.email))))})
      l3 == FilterLine(l2, filters.username_contains # None /\ Val(filters.username_contains) # "",
                       {u \in all : u.username = None},
                       {u \in all : /\ u.username # None
                                    /\ StrIn(lower(Chars(Val(filters.username_contains))),
                                             lower(Chars(Val(u.username))))})
  IN l3

list_users(db, pagination, filters) ==
  LET users == list_users_filter(db, filters)
      total == Len(users.list)
      paginated_users == Slice(users.list, pagination.skip,
                               pagination.skip + pagination.limit)
  IN IF users.err \/ \E j \in DOMAIN paginated_users :
                        ~UserResponseValid(paginated_users[j])
     THEN ServerError("list_users", 0)
     ELSE Response("list_users", 0, 200,
                   [users |-> [j \in DOMAIN paginated_users |->
                                 UserResponse(paginated_users[j])],
                    total |-> total,
                    skip |-> pagination.skip,
                    limit |-> pagination.limit])

\* mutant of delete_user: the record is answered as deleted but stays stored
delete_user_tombstone(db, user_id) ==
  IF user_id \notin StoreKeys(db)
  THEN [db |-> db, resp |-> HTTPException("delete_user", user_id, 404, "User not found")]
  ELSE [db |-> db,
        resp |-> Response("delete_user", user_id, 200,
                          [message |-> "successfully deleted", success |-> TRUE])]

delete_user(db, user_id) ==
  IF user_id \notin StoreKeys(db)
  THEN [db |-> db, resp |-> HTTPException("delete_user", user_id, 404, "User not found")]
  ELSE [db |-> StoreDel(db, user_id),
        resp |-> Response("delete_user", user_id, 200,
                          [message |-> "successfully deleted", success |-> TRUE])]

(***************************************************************************)
(* app/schemas/item.py                                                     *)
(***************************************************************************)
\* a member of class ItemStatus(str, Enum)
ItemStatus(v) == [enum |-> "ItemStatus", value |-> v]
ItemStatusValues == {"draft", "active", "archived"}

Decimal(cents) == [type |-> "Decimal", cents |-> cents]
\* float(x)
float(x) == [type |-> "float", cents |-> x.cents]

\* bool(v) of an Optional value: None, Decimal('0') and 0.0 are falsy; a
\* status member and a non-zero number are truthy
Truthy(o) ==
  /\ o # None
  /\ ("cents" \in DOMAIN Val(o)) => (Val(o).cents # 0)

ItemResponseFields ==
  {"id", "name", "description", "price", "status", "tags", "owner_id",
   "created_at", "updated_at"}

\* ItemCreate(**raw): description defaults to None, status to
\* ItemStatus.DRAFT, tags to a new empty list
ItemCreate(raw) ==
  DictUpdate([description |-> None,
              status |-> Some(ItemStatus("draft")),
              tags |-> Some(<<>>)], raw)

ItemUpdateFields == {"name", "description", "price", "status", "tags"}

\* mutant of ItemUpdate: a key that is no field of the model is kept
ItemUpdate_extra_allow(raw) == raw

\* ItemUpdate(**raw).model_dump(exclude_unset=True): the declared fields the
\* caller set, a null kept as None; a key that is no field of the model is
\* ignored
ItemUpdate(raw) == [k \in (DOMAIN raw) \cap ItemUpdateFields |-> raw[k]]

\* ItemFilterParams(): every filter defaults to None
ItemFilterParams(raw) ==
  DictUpdate([status |-> None, owner_id |-> None, min_price |-> None,
              max_price |-> None, tag |-> None], raw)

\* ItemResponse(**d) validates: name, price, status and tags are required and
\* not Optional, so None is rejected with a ValidationError; a status must be
\* a value of ItemStatus and a price must be >= 0
ItemResponseValid(d) ==
  /\ d.name # None
  /\ d.price # None /\ Val(d.price).cents >= 0
  /\ d.status # None /\ Val(d.status) \in ItemStatusValues
  /\ d.tags # None

\* the validated model: the declared fields, the price coerced to Decimal and
\* the status string to its ItemStatus member
ItemResponse(d) ==
  [f \in ItemResponseFields |->
     IF f = "price" THEN Some(Decimal(Val(d.price).cents))
     ELSE IF f = "status" THEN Some(ItemStatus(Val(d.status)))
     ELSE d[f]]

(***************************************************************************)
(* app/routers/items.py                                                    *)
(***************************************************************************)
\* lines 62-77 of create_item, id being the counter after line 61
create_item_at(db, id, item, now) ==
  LET item_dict == [id |-> id,
                    name |-> item.name,
                    description |-> item.description,
                    price |-> Some(float(Val(item.price))),
                    status |-> Some(Val(item.status).value),
                    tags |-> item.tags,
                    owner_id |-> item.owner_id,
                    created_at |-> now,
                    updated_at |-> None]
  IN [db |-> StoreSet(db, id, item_dict), counter |-> id,
      resp |-> IF ItemResponseValid(item_dict)
               THEN Response("create_item", 0, 201, ItemResponse(item_dict))
               ELSE ServerError("create_item", 0)]

\* mutant of create_item: the id is taken from the size of the store
create_item_reuse(db, counter, item, now) == create_item_at(db, Len(db) + 1, item, now)

create_item(db, counter, item, now) == create_item_at(db, counter + 1, item, now)

get_item(db, item_id) ==
  IF item_id \notin StoreKeys(db)
  THEN HTTPException("get_item", item_id, 404, "Item not found")
  ELSE IF ItemResponseValid(StoreGet(db, item_id))
       THEN Response("get_item", item_id, 200, ItemResponse(StoreGet(db, item_id)))
       ELSE ServerError("get_item", item_id)

\* lines 191-197 of update_item: a truthy status becomes its string value, a
\* truthy price becomes a float; a falsy one (None, Decimal('0')) stays as it is
update_item_convert(update_data) ==
  [k \in DOMAIN update_data |->
     IF k = "status" /\ Truthy(update_data[k]) THEN Some(Val(update_data[k]).value)
     ELSE IF k = "price" /\ Truthy(update_data[k]) THEN Some(float(Val(update_data[k])))
     ELSE update_data[k]]

\* mutant of update_item: the merged dict is written to the first entry of
\* the store instead of the entry of item_id
update_item_first(db, body, item_id, now) ==
  IF item_id \notin StoreKeys(db)
  THEN [db |-> db, resp |-> HTTPException("update_item", item_id, 404, "Item not found")]
  ELSE
    LET update_data == update_item_convert(body)
        item_dict == [DictUpdate(db[1].val, update_data)
                        EXCEPT !.updated_at = Some(now)]
    IN [db |-> StoreSet(db, db[1].key, item_dict),
        resp |-> IF ItemResponseValid(item_dict)
                 THEN Response("update_item", item_id, 200, ItemResponse(item_dict))
                 ELSE ServerError("update_item", item_id)]

\* mutant of update_item: the status of an archived item is not overwritten
update_item_guarded(db, body, item_id, now) ==
  IF item_id \notin StoreKeys(db)
  THEN [db |-> db, resp |-> HTTPException("update_item", item_id, 404, "Item not found")]
  ELSE
    LET update_data == update_item_convert(body)
        kept == IF StoreGet(db, item_id).status = Some("archived")
                THEN DictPop(update_data, "status") ELSE update_data
        item_dict == [DictUpdate(StoreGet(db, item_id), kept)
                        EXCEPT !.updated_at = Some(now)]
    IN [db |-> StoreSet(db, item_id, item_dict),
        resp |-> IF ItemResponseValid(item_dict)
                 THEN Response("update_item", item_id, 200, ItemResponse(item_dict))
                 ELSE ServerError("update_item", item_id)]

update_item(db, body, item_id, now) ==
  IF item_id \notin StoreKeys(db)
  THEN [db |-> db, resp |-> HTTPException("update_item", item_id, 404, "Item not found")]
  ELSE
    \* item_dict is the stored dict itself: update() and the updated_at
    \* assignment change the store before ItemResponse runs
    LET update_data == update_item_convert(body)  \* of body.model_dump(exclude_unset=True)
        item_dict == [DictUpdate(StoreGet(db, item_id), update_data)
                        EXCEPT !.updated_at = Some(now)]
    IN [db |-> StoreSet(db, item_id, item_dict),
        resp |-> IF ItemResponseValid(item_dict)
                 THEN Response("update_item", item_id, 200, ItemResponse(item_dict))
                 ELSE ServerError("update_item", item_id)]

\* mutant of delete_item: the whole store is emptied
delete_item_clear(db, item_id) ==
  IF item_id \notin StoreKeys(db)
  THEN [db |-> db, resp |-> HTTPException("delete_item", item_id, 404, "Item not found")]
  ELSE [db |-> <<>>,
        resp |-> Response("delete_item", item_id, 200,
                          [message |-> "successfully deleted", success |-> TRUE])]

delete_item(db, item_id) ==
  IF item_id \notin StoreKeys(db)
  THEN [db |-> db, resp |-> HTTPException("delete_item", item_id, 404, "Item not found")]
  ELSE [db |-> StoreDel(db, item_id),
        resp |-> Response("delete_item", item_id, 200,
                          [message |-> "successfully deleted", success |-> TRUE])]

archive_item(db, item_id, now) ==
  IF item_id \notin StoreKeys(db)
  THEN [db |-> db, resp |-> HTTPException("archive_item", item_id, 404, "Item not found")]
  ELSE
    LET item_dict == [StoreGet(db, item_id)
                        EXCEPT !.status = Some(ItemStatus("archived").value),
                               !.updated_at = Some(now)]
    IN [db |-> StoreSet(db, item_id, item_dict),
        resp |-> IF ItemResponseValid(item_dict)
                 THEN Response("archive_item", item_id, 200, ItemResponse(item_dict))
                 ELSE ServerError("archive_item", item_id)]

\* lines 102-114 of list_items: the stored items that pass the filters.
\* status, owner_id and tag are compared when they are truthy, the two price
\* bounds when they are not None; comparing a stored None price with a
\* number raises, and so does `in` on stored None tags
list_items_filter(db, filters) ==
  LET all == {db[i].val : i \in DOMAIN db}
      l0 == [err |-> FALSE, list |-> StoreValues(db)]
      l1 == FilterLine(l0, filters.status # None,
                       {},
                       {i \in all : i.status = Some(Val(filters.status).value)})
      l2 == FilterLine(l1, filters.owner_id # None /\ Val(filters.owner_id) # 0,
                       {},
                       {i \in all : i.owner_id = Val(filters.owner_id)})
      l3 == FilterLine(l2, filters.min_price # None,
                       {i \in all : i.price = None},
                       {i \in all : /\ i.price # None
                                    /\ Val(i.price).cents >= Val(filters.min_price).cents})
      l4 == FilterLine(l3, filters.max_price # None,
                       {i \in all : i.price = None},
                       {i \in all : /\ i.price # None
                                    /\ Val(i.price).cents <= Val(filters.max_price).cents})
      l5 == FilterLine(l4, filters.tag # None /\ Val(filters.tag) # "",
                       {i \in all : i.tags = None},
                       {i \in all : /\ i.tags # None
                                    /\ \E j \in DOMAIN Val(i.tags) :
                                          Val(i.tags)[j] = Val(filters.tag)})
  IN l5

list_items(db, pagination, filters) ==
  LET items == list_items_filter(db, filters)
      total == Len(items.list)
      paginated_items == Slice(items.list, pagination.skip,
                               pagination.skip + pagination.limit)
  IN IF items.err \/ \E j \in DOMAIN paginated_items :
                        ~ItemResponseValid(paginated_items[j])
     THEN ServerError("list_items", 0)
     ELSE Response("list_items", 0, 200,
                   [items |-> [j \in DOMAIN paginated_items |->
                                 ItemResponse(paginated_items[j])],
                    total |-> total,
                    skip |-> pagination.skip,
                    limit |-> pagination.limit])

(***************************************************************************)
(* Requests.  The bodies are what pydantic hands to the handlers: a create *)
(* body as the fields the caller set, an update body as                    *)
(* model_dump(exclude_unset=True) returns it (a field set to null is       *)
(* present with None, an omitted field is absent).                         *)
(***************************************************************************)
Emails == {"a@x.com", "b@x.com"}
Usernames == {"alice", "bob"}
UserIds == 1..MaxUserId
ItemIds == 1..MaxItemId

UserCreateRequests ==
  {[email |-> Some(e), username |-> Some(u), password |-> Some("secret123")] :
     e \in Emails, u \in Usernames}

UserUpdateBodies ==
  {EmptyDict,
   [email |-> None],
   [full_name |-> Some("Al")],
   [full_name |-> None],
   [password |-> Some("newsecret1")],
   [email |-> Some("b@x.com"), username |-> Some("bob")]}
  \cup {[email |-> Some(e)] : e \in Emails}
  \cup {[username |-> Some(u)] : u \in Usernames}

ItemCreateRequests ==
  {[name |-> Some("Widget"), price |-> Some(Decimal(999)), owner_id |-> 1],
   [name |-> Some("Widget"), price |-> Some(Decimal(999)), owner_id |-> 1,
    status |-> Some(ItemStatus("active"))]}

ItemUpdateBodies ==
  {EmptyDict,
   [name |-> None],
   [status |-> None],
   [price |-> Some(Decimal(0))]}
  \cup {[status |-> Some(ItemStatus(v))] : v \in ItemStatusValues}

\* the JSON bodies sent to update: the bodies above, and one with keys that
\* are no fields of the update model
UserUpdateRaws == UserUpdateBodies \cup {[id |-> 9, created_at |-> 7, full_name |-> Some("Al")]}
ItemUpdateRaws == ItemUpdateBodies \cup {[id |-> 9, created_at |-> 7, owner_id |-> 9]}

\* the query strings sent to the list routes, as the parameters of the two
\* dependencies
Skips == 0..3
Limits == {1, 2, 10, 100}
UserFilters ==
  {EmptyDict, [is_active |-> Some(TRUE)], [is_active |-> Some(FALSE)],
   [email_contains |-> Some("A@X")], [email_contains |-> Some("b")],
   [username_contains |-> Some("LIC")], [username_contains |-> Some("zz")],
   [email_contains |-> Some("A@X"), username_contains |-> Some("b")]}
ItemFilters ==
  {EmptyDict,
   [owner_id |-> Some(1)], [owner_id |-> Some(2)],
   [min_price |-> Some(float(Decimal(0)))], [min_price |-> Some(float(Decimal(999)))],
   [max_price |-> Some(float(Decimal(0)))], [max_price |-> Some(float(Decimal(999)))],
   [min_price |-> Some(float(Decimal(1))), max_price |-> Some(float(Decimal(998)))],
   [tag |-> Some("red")], [tag |-> Some("blue")],
   [owner_id |-> Some(1), tag |-> Some("red")]}
     \cup {[status |-> Some(ItemStatus(v))] : v \in ItemStatusValues}
     \cup {[status |-> Some(ItemStatus("active")), min_price |-> Some(float(Decimal(1)))]}
Paginations ==
  {EmptyDict} \cup {[skip |-> sk, limit |-> li] : sk \in Skips, li \in Limits}
UserListProbes == {[pagination |-> p, filters |-> f] : p \in Paginations, f \in UserFilters}
ItemListProbes == {[pagination |-> p, filters |-> f] : p \in Paginations, f \in ItemFilters}
UserListRequests ==
  {[pagination |-> EmptyDict, filters |-> EmptyDict],
   [pagination |-> [skip |-> 1, limit |-> 1], filters |-> EmptyDict],
   [pagination |-> [skip |-> 2, limit |-> 10], filters |-> [email_contains |-> Some("A@X")]],
   [pagination |-> EmptyDict, filters |-> [username_contains |-> Some("LIC")]]}
ItemListRequests ==
  {[pagination |-> EmptyDict, filters |-> EmptyDict],
   [pagination |-> [skip |-> 1, limit |-> 1], filters |-> EmptyDict],
   [pagination |-> [skip |-> 2, limit |-> 10], filters |-> [min_price |-> Some(float(Decimal(0)))]],
   [pagination |-> EmptyDict, filters |-> [status |-> Some(ItemStatus("archived"))]]}

(***************************************************************************)
(* Connections.  uvicorn runs one event loop; a request is read and        *)
(* validated, then its handler coroutine runs, then the response is sent.  *)
(***************************************************************************)
Clients == 1..NumClients

\* a connection with no request
NoRequest ==
  [phase |-> "idle", request |-> [op |-> "none", id |-> 0, body |-> EmptyDict],
   seen |-> <<>>, overlapped |-> FALSE, status |-> 0]

(***************************************************************************)
(* History variables.                                                      *)
(***************************************************************************)
\* f without the key k
Forget(f, k) == [j \in (DOMAIN f) \ {k} |-> f[j]]
\* f with k mapped to v
Remember(f, k, v) == [j \in (DOMAIN f) \cup {k} |-> IF j = k THEN v ELSE f[j]]

(***************************************************************************)
(* The state after the modules are imported.                               *)
(***************************************************************************)
Init ==
  /\ _fake_users_db = <<>>
  /\ _user_id_counter = 0
  /\ _fake_items_db = <<>>
  /\ _item_id_counter = 0
  /\ clock = 0
  /\ req = EmptyDict
  /\ resp = [op |-> "none", id |-> 0, status |-> 0, body |-> [detail |-> "none"]]
  /\ issued = [users |-> <<>>, items |-> <<>>]
  /\ deleted = [users |-> {}, items |-> {}]
  /\ created = [users |-> <<>>, items |-> <<>>]
  /\ inflight = [c \in Clients |-> NoRequest]
  /\ log = <<>>
  /\ heap = [models |-> <<>>, lists |-> <<>>, dict |-> <<>>, tags |-> <<>>,
             returned |-> <<>>]

\* time passes: a later datetime.utcnow() returns a later value (the system
\* clock is taken not to be set back while the process runs)
Tick ==
  /\ clock < MaxClock
  /\ clock' = clock + 1
  /\ UNCHANGED <<inflight, userVars, itemVars, req, resp, issued, deleted, created>>

(***************************************************************************)
(* The user endpoints.                                                     *)
(***************************************************************************)
CreateUser ==
  /\ _user_id_counter < MaxUserId
  /\ \E raw \in UserCreateRequests :
       LET r == create_user(_fake_users_db, _user_id_counter, UserCreate(raw), clock)
       IN /\ _fake_users_db' = r.db
          /\ _user_id_counter' = r.counter
          /\ req' = raw
          /\ resp' = r.resp
          /\ issued' = IF r.resp.status = 201
                       THEN [issued EXCEPT !.users = Append(@, r.resp.body.id)]
                       ELSE issued
          /\ created' = IF r.resp.status = 201
                        THEN [created EXCEPT
                                !.users = Remember(@, r.resp.body.id, r.resp.body)]
                        ELSE created
  /\ UNCHANGED <<inflight, itemVars, clock, deleted>>

GetUser ==
  /\ \E user_id \in UserIds : req' = EmptyDict /\ resp' = get_user(_fake_users_db, user_id)
  /\ UNCHANGED <<inflight, userVars, itemVars, clock, issued, deleted, created>>

UpdateUserOf(raws) ==
  /\ \E user_id \in UserIds, raw \in raws :
       LET r == update_user(_fake_users_db, UserUpdate(raw), user_id, clock)
       IN /\ _fake_users_db' = r.db
          /\ req' = raw
          /\ resp' = r.resp
          /\ created' = [created EXCEPT !.users = Forget(@, user_id)]
  /\ UNCHANGED <<inflight, _user_id_counter, itemVars, clock, issued, deleted>>

\* mutant of DeleteUser: the items of the deleted user go with it
DeleteUser_cascade ==
  /\ \E user_id \in UserIds :
       LET r == delete_user(_fake_users_db, user_id)
       IN /\ _fake_users_db' = r.db
          /\ _fake_items_db' = IF r.resp.status = 200
                               THEN SelectSeq(_fake_items_db,
                                              LAMBDA e : e.val.owner_id # user_id)
                               ELSE _fake_items_db
          /\ req' = EmptyDict
          /\ resp' = r.resp
          /\ deleted' = IF r.resp.status = 200
                        THEN [deleted EXCEPT !.users = @ \cup {user_id}]
                        ELSE deleted
          /\ created' = [created EXCEPT !.users = Forget(@, user_id)]
  /\ UNCHANGED <<inflight, _user_id_counter, _item_id_counter, clock, issued>>

DeleteUser ==
  /\ \E user_id \in UserIds :
       LET r == delete_user(_fake_users_db, user_id)
       IN /\ _fake_users_db' = r.db
          /\ req' = EmptyDict
          /\ resp' = r.resp
          /\ deleted' = IF r.resp.status = 200
                        THEN [deleted EXCEPT !.users = @ \cup {user_id}]
                        ELSE deleted
          /\ created' = [created EXCEPT !.users = Forget(@, user_id)]
  /\ UNCHANGED <<inflight, _user_id_counter, itemVars, clock, issued>>

(***************************************************************************)
(* The item endpoints.                                                     *)
(***************************************************************************)
CreateItemOf(requests) ==
  /\ _item_id_counter < MaxItemId
  /\ \E raw \in requests :
       LET r == create_item(_fake_items_db, _item_id_counter, ItemCreate(raw), clock)
       IN /\ _fake_items_db' = r.db
          /\ _item_id_counter' = r.counter
          /\ req' = raw
          /\ resp' = r.resp
          /\ issued' = IF r.resp.status = 201
                       THEN [issued EXCEPT !.items = Append(@, r.resp.body.id)]
                       ELSE issued
          /\ created' = IF r.resp.status = 201
                        THEN [created EXCEPT
                                !.items = Remember(@, r.resp.body.id, r.resp.body)]
                        ELSE created
  /\ UNCHANGED <<inflight, userVars, clock, deleted>>

\* mutant of GetItem: an item that was read is taken out of the store
GetItem_once ==
  /\ \E item_id \in ItemIds :
       /\ req' = EmptyDict
       /\ resp' = get_item(_fake_items_db, item_id)
       /\ _fake_items_db' = StoreDel(_fake_items_db, item_id)
  /\ UNCHANGED <<inflight, userVars, _item_id_counter, clock, issued, deleted, created>>

GetItem ==
  /\ \E item_id \in ItemIds : req' = EmptyDict /\ resp' = get_item(_fake_items_db, item_id)
  /\ UNCHANGED <<inflight, userVars, itemVars, clock, issued, deleted, created>>

UpdateItemOf(raws) ==
  /\ \E item_id \in ItemIds, raw \in raws :
       LET r == update_item(_fake_items_db, ItemUpdate(raw), item_id, clock)
       IN /\ _fake_items_db' = r.db
          /\ req' = raw
          /\ resp' = r.resp
          /\ created' = [created EXCEPT !.items = Forget(@, item_id)]
  /\ UNCHANGED <<inflight, userVars, _item_id_counter, clock, issued, deleted>>

DeleteItem ==
  /\ \E item_id \in ItemIds :
       LET r == delete_item(_fake_items_db, item_id)
       IN /\ _fake_items_db' = r.db
          /\ req' = EmptyDict
          /\ resp' = r.resp
          /\ deleted' = IF r.resp.status = 200
                        THEN [deleted EXCEPT !.items = @ \cup {item_id}]
                        ELSE deleted
          /\ created' = [created EXCEPT !.items = Forget(@, item_id)]
  /\ UNCHANGED <<inflight, userVars, _item_id_counter, clock, issued>>

ArchiveItem ==
  /\ \E item_id \in ItemIds :
       LET r == archive_item(_fake_items_db, item_id, clock)
       IN /\ _fake_items_db' = r.db
          /\ req' = EmptyDict
          /\ resp' = r.resp
          /\ created' = [created EXCEPT !.items = Forget(@, item_id)]
  /\ UNCHANGED <<inflight, userVars, _item_id_counter, clock, issued, deleted>>

ListUsersOf(queries) ==
  /\ \E q \in queries :
       /\ req' = q
       /\ resp' = list_users(_fake_users_db, PaginationParams(q.pagination),
                             UserFilterParams(q.filters))
  /\ UNCHANGED <<inflight, userVars, itemVars, clock, issued, deleted, created>>

ListItemsOf(queries) ==
  /\ \E q \in queries :
       /\ req' = q
       /\ resp' = list_items(_fake_items_db, PaginationParams(q.pagination),
                             ItemFilterParams(q.filters))
  /\ UNCHANGED <<inflight, userVars, itemVars, clock, issued, deleted, created>>

CreateItem == CreateItemOf(ItemCreateRequests)
UpdateUser == UpdateUserOf(UserUpdateRaws)
UpdateItem == UpdateItemOf(ItemUpdateRaws)
ListUsers == ListUsersOf(UserListRequests)
ListItems == ListItemsOf(ItemListRequests)

\* Both stores.  The handlers of a router read and write the two globals of
\* that router only (the arguments of the operators above), so the requests
\* to one store are explored while the other store is unused.
UsersUnused == _user_id_counter = 0
ItemsUnused == _item_id_counter = 0

\* the history of requests and the identity of objects are not kept
Unlogged == UNCHANGED <<log, heap>>

Next ==
  \/ (Tick /\ Unlogged)
  \/ (ItemsUnused /\ CreateUser /\ Unlogged)
  \/ (ItemsUnused /\ GetUser /\ Unlogged)
  \/ (ItemsUnused /\ UpdateUser /\ Unlogged)
  \/ (ItemsUnused /\ DeleteUser /\ Unlogged)
  \/ (UsersUnused /\ CreateItem /\ Unlogged)
  \/ (UsersUnused /\ GetItem /\ Unlogged)
  \/ (UsersUnused /\ UpdateItem /\ Unlogged)
  \/ (UsersUnused /\ DeleteItem /\ Unlogged)
  \/ (UsersUnused /\ ArchiveItem /\ Unlogged)
  \/ (ItemsUnused /\ ListUsers /\ Unlogged)
  \/ (UsersUnused /\ ListItems /\ Unlogged)

Spec == Init /\ [][Next]_vars

(***************************************************************************)
(* The list routes.  Listing is a function of the store and the query, so  *)
(* it is explored over stores whose records differ in every filtered field *)
(* (owner, price, tags, status), with the requests that change what a list *)
(* answers: create, archive, and an update with a null.                    *)
(***************************************************************************)
ListedItemCreateRequests ==
  {[name |-> Some("Widget"), price |-> Some(Decimal(999)), owner_id |-> 1],
   [name |-> Some("Gadget"), price |-> Some(Decimal(500)), owner_id |-> 2,
    status |-> Some(ItemStatus("active")), tags |-> Some(<<"red">>)],
   [name |-> Some("Freebie"), price |-> Some(Decimal(0)), owner_id |-> 1,
    tags |-> Some(<<"blue", "red">>)]}
ListedItemUpdateRaws == {[name |-> None], [price |-> None]}
ListedUserUpdateRaws == {[email |-> None]}
UserListQueries ==
  UserListRequests \cup
    {[pagination |-> [skip |-> 0, limit |-> 1], filters |-> [is_active |-> Some(TRUE)]],
     [pagination |-> [skip |-> 1, limit |-> 100], filters |-> [email_contains |-> Some("b")]]}
ItemListQueries ==
  ItemListRequests \cup
    {[pagination |-> [skip |-> 0, limit |-> 1], filters |-> [tag |-> Some("red")]],
     [pagination |-> [skip |-> 1, limit |-> 100], filters |-> [owner_id |-> Some(1)]],
     [pagination |-> EmptyDict,
      filters |-> [min_price |-> Some(float(Decimal(1))), max_price |-> Some(float(Decimal(998)))]]}

NextList ==
  \/ (ItemsUnused /\ CreateUser /\ Unlogged)
  \/ (ItemsUnused /\ UpdateUserOf(ListedUserUpdateRaws) /\ Unlogged)
  \/ (ItemsUnused /\ ListUsersOf(UserListQueries) /\ Unlogged)
  \/ (UsersUnused /\ CreateItemOf(ListedItemCreateRequests) /\ Unlogged)
  \/ (UsersUnused /\ UpdateItemOf(ListedItemUpdateRaws) /\ Unlogged)
  \/ (UsersUnused /\ ArchiveItem /\ Unlogged)
  \/ (UsersUnused /\ ListItemsOf(ItemListQueries) /\ Unlogged)

SpecList == Init /\ [][NextList]_vars

(***************************************************************************)
(* The first MaxLog requests of a run, with the history of what was asked  *)
(* and answered.                                                           *)
(***************************************************************************)
LogUserUpdateRaws ==
  {[email |-> Some(e)] : e \in Emails} \cup {[username |-> Some(u)] : u \in Usernames}
LogItemUpdateRaws ==
  {[status |-> Some(ItemStatus(v))] : v \in ItemStatusValues}
    \cup {[status |-> None], [name |-> None]}

\* the request handled in this step goes to the end of the history, with the
\* id it named, or the id it was given when it created a record
Logged ==
  /\ Len(log) < MaxLog
  /\ log' = Append(log, [op |-> resp'.op,
                         id |-> IF resp'.status = 201 THEN resp'.body.id ELSE resp'.id,
                         req |-> req',
                         status |-> resp'.status,
                         body |-> resp'.body])
  /\ UNCHANGED heap

NextLog ==
  \/ (ItemsUnused /\ CreateUser /\ Logged)
  \/ (ItemsUnused /\ UpdateUserOf(LogUserUpdateRaws) /\ Logged)
  \/ (ItemsUnused /\ DeleteUser /\ Logged)
  \/ (UsersUnused /\ CreateItem /\ Logged)
  \/ (UsersUnused /\ UpdateItemOf(LogItemUpdateRaws) /\ Logged)
  \/ (UsersUnused /\ ArchiveItem /\ Logged)
  \/ (UsersUnused /\ DeleteItem /\ Logged)
  \/ (ItemsUnused /\ GetUser /\ Logged)
  \/ (ItemsUnused /\ ListUsers /\ Logged)
  \/ (UsersUnused /\ GetItem /\ Logged)
  \/ (UsersUnused /\ ListItems /\ Logged)

SpecLog == Init /\ [][NextLog]_vars

(***************************************************************************)
(* The objects of the items router.  A stored item is one dict object that *)
(* update_item and archive_item change in place; its "tags" key refers to  *)
(* a list object.  What a handler returns is an ItemResponse model object. *)
(* heap.models[a] is what dict or model object a holds now, heap.lists[a]  *)
(* what list object a holds now; heap.dict[id] and heap.tags[id] are the   *)
(* addresses of the stored dict of id and of the list its "tags" refers to *)
(* (0 for None); heap.returned are the records handed out so far: what    *)
(* each held when it was returned, and which objects it and its tags are.  *)
(***************************************************************************)
\* mutant of ItemResponse_new: the stored dict itself is handed out
ItemResponse_alias(h, id, body) ==
  [h EXCEPT !.returned = Append(@, [body |-> body, at |-> h.dict[id],
                                    tags |-> h.tags[id]])]

\* ItemResponse(**item_dict): a new model object, and validation of
\* List[str] builds a new list from the one the dict refers to
ItemResponse_new(h, id, body) ==
  [h EXCEPT !.models = Append(@, body),
            !.lists = Append(@, h.lists[h.tags[id]]),
            !.returned = Append(@, [body |-> body, at |-> Len(h.models) + 1,
                                    tags |-> Len(h.lists) + 1])]

\* items.py:64-75: item_dict is a new dict, its "tags" is the list of the
\* request model, and the store refers to that dict
item_dict_new(h, id, d) ==
  [h EXCEPT !.models = Append(@, d),
            !.dict = Remember(@, id, Len(h.models) + 1),
            !.lists = Append(@, Val(d.tags)),
            !.tags = Remember(@, id, Len(h.lists) + 1)]

\* items.py:199-200, 268-269: the stored dict is changed in place to hold d;
\* when the update sets "tags" the key refers to the list model_dump built,
\* or to None
item_dict_update(h, id, d, sets_tags) ==
  LET h1 == [h EXCEPT !.models[h.dict[id]] = d]
  IN IF ~sets_tags THEN h1
     ELSE IF d.tags = None THEN [h1 EXCEPT !.tags[id] = 0]
     ELSE [h1 EXCEPT !.lists = Append(@, Val(d.tags)),
                     !.tags[id] = Len(h.lists) + 1]

\* del _fake_items_db[item_id]
item_dict_del(h, id) ==
  [h EXCEPT !.dict = Forget(@, id), !.tags = Forget(@, id)]

\* items [ItemResponse(**i) for i in paginated_items]
RECURSIVE ItemResponse_each(_, _, _)
ItemResponse_each(h, items, j) ==
  IF j > Len(items) THEN h
  ELSE ItemResponse_each(ItemResponse_new(h, items[j].id, items[j]), items, j + 1)

\* what the request handled in this step did to the objects
Tracked ==
  /\ Len(heap.returned) < MaxReturned
  /\ UNCHANGED log
  /\ heap' =
       LET op == resp'.op
           id == resp'.id
           ok == resp'.status \in {200, 201}
       IN CASE op = "create_item" /\ ok ->
                 ItemResponse_new(
                   item_dict_new(heap, resp'.body.id,
                                 StoreGet(_fake_items_db', resp'.body.id)),
                   resp'.body.id, resp'.body)
            [] op = "update_item" /\ id \in StoreKeys(_fake_items_db) ->
                 LET h == item_dict_update(heap, id, StoreGet(_fake_items_db', id),
                                           "tags" \in DOMAIN ItemUpdate(req'))
                 IN IF ok THEN ItemResponse_new(h, id, resp'.body) ELSE h
            [] op = "archive_item" /\ id \in StoreKeys(_fake_items_db) ->
                 LET h == item_dict_update(heap, id, StoreGet(_fake_items_db', id),
                                           FALSE)
                 IN IF ok THEN ItemResponse_new(h, id, resp'.body) ELSE h
            [] op = "get_item" /\ ok -> ItemResponse_new(heap, id, resp'.body)
            [] op = "list_items" /\ ok -> ItemResponse_each(heap, resp'.body.items, 1)
            [] op = "delete_item" /\ ok -> item_dict_del(heap, id)
            [] OTHER -> heap

HeapItemCreateRequests ==
  {[name |-> Some("Widget"), price |-> Some(Decimal(999)), owner_id |-> 1],
   [name |-> Some("Widget"), price |-> Some(Decimal(999)), owner_id |-> 1,
    tags |-> Some(<<"red">>)]}
HeapItemUpdateRaws ==
  {[tags |-> Some(<<"blue">>)], [tags |-> None], [name |-> Some("Gizmo")]}

HeapListQueries == {[pagination |-> EmptyDict, filters |-> EmptyDict]}

NextHeap ==
  \/ (UsersUnused /\ CreateItemOf(HeapItemCreateRequests) /\ Tracked)
  \/ (UsersUnused /\ GetItem /\ Tracked)
  \/ (UsersUnused /\ UpdateItemOf(HeapItemUpdateRaws) /\ Tracked)
  \/ (UsersUnused /\ ArchiveItem /\ Tracked)
  \/ (UsersUnused /\ DeleteItem /\ Tracked)
  \/ (UsersUnused /\ ListItemsOf(HeapListQueries) /\ Tracked)

SpecHeap == Init /\ [][NextHeap]_vars

(***************************************************************************)
(* Both routers of the one application, their requests interleaved in any  *)
(* order: the user routes and the item routes are mounted side by side and *)
(* a client may call them in turn.                                         *)
(***************************************************************************)
BothUserUpdateRaws == {[full_name |-> Some("Al")], [email |-> None]}
BothItemUpdateRaws == {[status |-> Some(ItemStatus("active"))], [name |-> None]}
BothListQueries == {[pagination |-> EmptyDict, filters |-> EmptyDict]}

NextBoth ==
  \/ (CreateUser /\ Unlogged)
  \/ (GetUser /\ Unlogged)
  \/ (UpdateUserOf(BothUserUpdateRaws) /\ Unlogged)
  \/ (DeleteUser /\ Unlogged)
  \/ (ListUsersOf(BothListQueries) /\ Unlogged)
  \/ (CreateItem /\ Unlogged)
  \/ (GetItem /\ Unlogged)
  \/ (UpdateItemOf(BothItemUpdateRaws) /\ Unlogged)
  \/ (DeleteItem /\ Unlogged)
  \/ (ArchiveItem /\ Unlogged)
  \/ (ListItemsOf(BothListQueries) /\ Unlogged)

SpecBoth == Init /\ [][NextBoth]_vars

(***************************************************************************)
(* Concurrent requests.  Every handler is an `async def` without an await  *)
(* in its body, so the event loop runs a handler from its first line to    *)
(* its return before it runs anything else; requests overlap between being *)
(* accepted and being handled, and between being handled and answered.     *)
(***************************************************************************)
\* mutant of HandlerAwaits: every handler awaits between reading the globals
\* and writing them
HandlerAwaits_before_write(op) == TRUE

\* does the body of the handler of op await?  (no handler does)
HandlerAwaits(op) == FALSE

ConcUserCreates ==
  {[email |-> Some("a@x.com"), username |-> Some(u), password |-> Some("secret123")] :
     u \in Usernames}
ConcUserUpdates == {[email |-> Some("b@x.com")], [full_name |-> Some("Al")]}
ConcItemCreates == {[name |-> Some("Widget"), price |-> Some(Decimal(999)), owner_id |-> 1]}
ConcRequests ==
  {[op |-> "create_user", id |-> 0, body |-> raw] : raw \in ConcUserCreates}
    \cup {[op |-> "update_user", id |-> i, body |-> raw] : i \in UserIds, raw \in ConcUserUpdates}
    \cup {[op |-> "create_item", id |-> 0, body |-> raw] : raw \in ConcItemCreates}

\* the module globals
Globals ==
  [users |-> _fake_users_db, user_counter |-> _user_id_counter,
   items |-> _fake_items_db, item_counter |-> _item_id_counter]

\* the handler of request q run on the globals g: the globals it leaves and
\* its response
Handle(q, g, now) ==
  CASE q.op = "create_user" ->
         LET r == create_user(g.users, g.user_counter, UserCreate(q.body), now)
         IN [users |-> r.db, user_counter |-> r.counter,
             items |-> g.items, item_counter |-> g.item_counter, resp |-> r.resp]
    [] q.op = "update_user" ->
         LET r == update_user(g.users, UserUpdate(q.body), q.id, now)
         IN [users |-> r.db, user_counter |-> g.user_counter,
             items |-> g.items, item_counter |-> g.item_counter, resp |-> r.resp]
    [] q.op = "create_item" ->
         LET r == create_item(g.items, g.item_counter, ItemCreate(q.body), now)
         IN [users |-> g.users, user_counter |-> g.user_counter,
             items |-> r.db, item_counter |-> r.counter, resp |-> r.resp]

\* a handler that was suspended after it read the store `seen` and computed
\* `out` writes, when resumed, the entries it changed into the store `cur`
RECURSIVE WriteBack(_, _, _, _)
WriteBack(cur, seen, out, i) ==
  IF i > Len(out) THEN cur
  ELSE LET e == out[i]
           changed == e.key \notin StoreKeys(seen) \/ StoreGet(seen, e.key) # e.val
       IN WriteBack(IF changed THEN StoreSet(cur, e.key, e.val) ELSE cur, seen, out, i + 1)

Running(c) == inflight[c].phase \in {"accepted", "suspended"}

\* the requests for op that are accepted and not handled yet
Pending(op) ==
  Cardinality({c \in Clients : Running(c) /\ inflight[c].request.op = op})

UserRequestInFlight ==
  \E c \in Clients : inflight[c].phase # "idle" /\ inflight[c].request.op # "create_item"
ItemRequestInFlight ==
  \E c \in Clients : inflight[c].phase # "idle" /\ inflight[c].request.op = "create_item"

\* the server has read and validated a request on connection c
Accept(c) ==
  /\ inflight[c].phase = "idle"
  /\ \E q \in ConcRequests :
       /\ IF q.op = "create_item"
          THEN /\ UsersUnused /\ ~UserRequestInFlight
               /\ _item_id_counter + Pending("create_item") < MaxItemId
          ELSE /\ ItemsUnused /\ ~ItemRequestInFlight
               /\ q.op = "create_user" =>
                    _user_id_counter + Pending("create_user") < MaxUserId
       /\ inflight' = [inflight EXCEPT ![c] =
                         [phase |-> "accepted", request |-> q, seen |-> <<>>,
                          overlapped |-> FALSE, status |-> 0]]
  /\ UNCHANGED <<userVars, itemVars, clock, req, resp, issued, deleted, created, log, heap>>

\* the event loop runs the handler of connection c: to its return when the
\* body has no await, else to the await and, when scheduled again, from
\* there on the values it read before
RunHandler(c) ==
  /\ Running(c)
  /\ LET q == inflight[c].request
     IN IF inflight[c].phase = "accepted" /\ HandlerAwaits(q.op)
        THEN /\ inflight' = [inflight EXCEPT ![c].phase = "suspended",
                                             ![c].seen = Globals]
             /\ UNCHANGED <<userVars, itemVars, clock, req, resp, issued, deleted, created, log, heap>>
        ELSE LET resumed == inflight[c].phase = "suspended"
                 g == IF resumed THEN inflight[c].seen ELSE Globals
                 r == Handle(q, g, clock)
                 kind == IF q.op = "create_item" THEN "items" ELSE "users"
             IN /\ _fake_users_db' =
                     IF resumed THEN WriteBack(_fake_users_db, g.users, r.users, 1)
                     ELSE r.users
                /\ _fake_items_db' =
                     IF resumed THEN WriteBack(_fake_items_db, g.items, r.items, 1)
                     ELSE r.items
                /\ _user_id_counter' = r.user_counter
                /\ _item_id_counter' = r.item_counter
                /\ req' = q.body
                /\ resp' = r.resp
                /\ issued' = IF r.resp.status = 201
                             THEN [issued EXCEPT ![kind] = Append(@, r.resp.body.id)]
                             ELSE issued
                /\ created' = IF q.op = "update_user"
                              THEN [created EXCEPT !.users = Forget(@, q.id)]
                              ELSE IF r.resp.status = 201
                              THEN [created EXCEPT
                                      ![kind] = Remember(@, r.resp.body.id, r.resp.body)]
                              ELSE created
                /\ inflight' =
                     [d \in Clients |->
                        IF d = c
                        THEN [inflight[c] EXCEPT !.phase = "answered", !.seen = <<>>,
                                                 !.status = r.resp.status]
                        ELSE IF Running(d)
                        THEN [inflight[d] EXCEPT !.overlapped = TRUE]
                        ELSE inflight[d]]
                /\ UNCHANGED <<clock, deleted, log, heap>>

\* the response of connection c has been sent
Deliver(c) ==
  /\ inflight[c].phase = "answered"
  /\ inflight' = [inflight EXCEPT ![c] = NoRequest]
  /\ UNCHANGED <<userVars, itemVars, clock, req, resp, issued, deleted, created, log, heap>>

NextConc ==
  \/ \E c \in Clients : Accept(c)
  \/ \E c \in Clients : RunHandler(c)
  \/ \E c \in Clients : Deliver(c)

SpecConc == Init /\ [][NextConc]_vars

(***************************************************************************)
(* Properties.                                                             *)
(***************************************************************************)
StrictlyIncreasing(seq) == \A i, j \in DOMAIN seq : i < j => seq[i] < seq[j]

\* C1: for each store, every successful create returns an identifier that
\* is strictly greater than every identifier an earlier create of that store
\* returned, whatever creates, updates, archives and deletes came before; so
\* no identifier is handed out again after its record was deleted.
C1_IdsStrictlyIncrease ==
  /\ StrictlyIncreasing(issued.users)
  /\ StrictlyIncreasing(issued.items)

\* a user was created after the delete of an earlier user succeeded
C1_Witness ==
  /\ resp.op = "create_user" /\ resp.status = 201
  /\ Len(issued.users) >= 2
  /\ \E id \in deleted.users : id < resp.body.id

\* C2: in every reachable state no two stored users have the same email and
\* no two have the same username.
C2_UniqueEmailUsername ==
  \A i, j \in DOMAIN _fake_users_db :
    i # j => /\ _fake_users_db[i].val.email # _fake_users_db[j].val.email
             /\ _fake_users_db[i].val.username # _fake_users_db[j].val.username

\* two users are stored and an update that would have duplicated a username
\* was refused
C2_Witness ==
  /\ Len(_fake_users_db) = 2
  /\ resp.op = "update_user" /\ resp.status = 400
  /\ resp.body.detail = "Username already taken"

\* create bodies that differ from the requests of CreateUser in the fields
\* that are not email or username
UserCreateProbes ==
  UserCreateRequests
  \cup {[email |-> Some(e), username |-> Some(u), password |-> Some("otherpass9"),
         full_name |-> Some("Al"), is_active |-> Some(FALSE)] :
          e \in Emails, u \in Usernames}

EmailOrUsernameTaken(db, body) ==
  \E i \in DOMAIN db :
    db[i].val.email = body.email \/ db[i].val.username = body.username

\* C3: in every reachable state create_user answers 400 when some stored user
\* has the supplied email or the supplied username, whatever the other
\* supplied fields are, and answers 201 otherwise.
C3_CreateUserConflict ==
  \A raw \in UserCreateProbes :
    LET body == UserCreate(raw)
        r == create_user(_fake_users_db, _user_id_counter, body, clock)
    IN IF EmailOrUsernameTaken(_fake_users_db, body)
       THEN r.resp.status = 400
       ELSE r.resp.status = 201

\* a create was refused for its username although its email was free
C3_Witness ==
  /\ resp.op = "create_user" /\ resp.status = 400
  /\ resp.body.detail = "Username already taken"
  /\ Len(_fake_users_db) = 1

\* the update body supplies an email or a username that a different stored
\* user has
UpdateCollides(db, user_id, body) ==
  \E i \in DOMAIN db :
    /\ db[i].key # user_id
    /\ \/ "email" \in DOMAIN body /\ db[i].val.email = body.email
       \/ "username" \in DOMAIN body /\ db[i].val.username = body.username

\* the update body supplies nothing but the user's own current email or username
SuppliesOwn(user_dict, body) ==
  /\ DOMAIN body # {}
  /\ DOMAIN body \subseteq {"email", "username"}
  /\ \A f \in DOMAIN body : body[f] = user_dict[f]

\* C4: update_user on an existing user answers 400 exactly when the body
\* supplies an email or username of a different stored user; a body that
\* supplies the user's own current email or username is no conflict and the
\* update succeeds.
C4_UpdateUserConflict ==
  \A user_id \in StoreKeys(_fake_users_db), body \in UserUpdateBodies :
    LET r == update_user(_fake_users_db, body, user_id, clock)
    IN /\ (r.resp.status = 400) <=> UpdateCollides(_fake_users_db, user_id, body)
       /\ SuppliesOwn(StoreGet(_fake_users_db, user_id), body) => r.resp.status = 200

\* C5: once a delete of an identifier has succeeded, get, update, delete and
\* archive of that identifier answer 404 in every later state, however many
\* records were created since.
C5_DeletedStaysNotFound ==
  /\ \A id \in deleted.users :
       /\ get_user(_fake_users_db, id).status = 404
       /\ delete_user(_fake_users_db, id).resp.status = 404
       /\ \A body \in UserUpdateBodies :
            update_user(_fake_users_db, body, id, clock).resp.status = 404
  /\ \A id \in deleted.items :
       /\ get_item(_fake_items_db, id).status = 404
       /\ delete_item(_fake_items_db, id).resp.status = 404
       /\ archive_item(_fake_items_db, id, clock).resp.status = 404
       /\ \A body \in ItemUpdateBodies :
            update_item(_fake_items_db, body, id, clock).resp.status = 404

\* an item was deleted, another item was created after that, and a request
\* for the deleted identifier was answered 404
C5_Witness ==
  /\ resp.op \in {"get_item", "update_item", "archive_item", "delete_item"}
  /\ resp.status = 404
  /\ resp.id \in deleted.items
  /\ \E i \in DOMAIN _fake_items_db : _fake_items_db[i].key > resp.id

\* C6: as long as no update, archive or delete was called on the identifier
\* a successful create returned, get of that identifier answers 200 with a
\* record equal, field for field, to the record create returned; requests
\* for other identifiers do not matter.
C6_GetReturnsCreated ==
  /\ \A id \in DOMAIN created.users :
       get_user(_fake_users_db, id) = Response("get_user", id, 200, created.users[id])
  /\ \A id \in DOMAIN created.items :
       get_item(_fake_items_db, id) = Response("get_item", id, 200, created.items[id])

\* get returned an item as it was created after another item was updated
C6_Witness ==
  /\ resp.op = "get_item" /\ resp.status = 200
  /\ resp.id \in DOMAIN created.items
  /\ resp.body = created.items[resp.id]
  /\ \E i \in DOMAIN _fake_items_db :
       /\ _fake_items_db[i].key # resp.id
       /\ _fake_items_db[i].val.updated_at # None

\* C7: in every reachable state get of an identifier answers 404 exactly
\* when no record with that identifier is stored, and for a stored
\* identifier it answers 200 with that record: it fails in no other way.
C7_GetFailsOnlyNotFound ==
  /\ \A id \in UserIds :
       LET r == get_user(_fake_users_db, id)
       IN IF id \in StoreKeys(_fake_users_db)
          THEN r.status = 200 /\ r.body.id = id
          ELSE r.status = 404
  /\ \A id \in ItemIds :
       LET r == get_item(_fake_items_db, id)
       IN IF id \in StoreKeys(_fake_items_db)
          THEN r.status = 200 /\ r.body.id = id
          ELSE r.status = 404

IdAddressedOps ==
  {"get_user", "update_user", "delete_user",
   "get_item", "update_item", "delete_item", "archive_item"}

\* C8: a failed get, update, delete or archive of an identifier is answered
\* with 404 (not found) or 400 (conflict) and with no other failure, also
\* when the update body supplies null for a field.
C8_OnlyTwoErrorKinds ==
  (resp.op \in IdAddressedOps /\ resp.status # 200) => resp.status \in {404, 400}

\* the stored value f has after body supplied it: an ItemStatus member is
\* stored as its string and a Decimal as a number of the same value
SuppliedItemValue(f, stored, supplied) ==
  IF supplied = None THEN stored = None
  ELSE IF f = "status" THEN stored # None /\ Val(stored) = Val(supplied).value
  ELSE IF f = "price" THEN stored # None /\ Val(stored).cents = Val(supplied).cents
  ELSE stored = supplied

\* C9: a successful update changes the fields the caller supplied and
\* updated_at, and nothing else: an omitted field keeps its value, and a
\* supplied field, also one supplied as null or with a default or zero
\* value, holds the supplied value afterwards.  (The password of a user
\* update is not a field of the record.)
C9_UpdateChangesSuppliedFieldsOnly ==
  /\ \A user_id \in StoreKeys(_fake_users_db), body \in UserUpdateBodies :
       LET r == update_user(_fake_users_db, body, user_id, clock)
           old == StoreGet(_fake_users_db, user_id)
           new == StoreGet(r.db, user_id)
       IN r.resp.status = 200 =>
            /\ DOMAIN new = DOMAIN old
            /\ new.updated_at = Some(clock)
            /\ \A f \in (DOMAIN old) \ {"updated_at"} :
                 new[f] = IF f \in DOMAIN body THEN body[f] ELSE old[f]
  /\ \A item_id \in StoreKeys(_fake_items_db), body \in ItemUpdateBodies :
       LET r == update_item(_fake_items_db, body, item_id, clock)
           old == StoreGet(_fake_items_db, item_id)
           new == StoreGet(r.db, item_id)
       IN r.resp.status = 200 =>
            /\ DOMAIN new = DOMAIN old
            /\ new.updated_at = Some(clock)
            /\ \A f \in (DOMAIN old) \ {"updated_at"} :
                 IF f \in DOMAIN body
                 THEN SuppliedItemValue(f, new[f], body[f])
                 ELSE new[f] = old[f]

\* an update that supplied null for the full name of a user, and nothing
\* else, succeeded
C9_Witness ==
  /\ resp.op = "update_user" /\ resp.status = 200
  /\ req = [full_name |-> None]
  /\ resp.body.full_name = None
  /\ resp.body.updated_at = Some(clock)

\* C10: an update with an empty body of a stored record succeeds and leaves
\* every field but updated_at as it was; updated_at is not null afterwards
\* and not smaller than it was before.
C10_EmptyUpdateTouchesUpdatedAtOnly ==
  /\ \A user_id \in StoreKeys(_fake_users_db) :
       LET r == update_user(_fake_users_db, EmptyDict, user_id, clock)
           old == StoreGet(_fake_users_db, user_id)
           new == StoreGet(r.db, user_id)
       IN /\ r.resp.status = 200
          /\ [new EXCEPT !.updated_at = None] = [old EXCEPT !.updated_at = None]
          /\ new.updated_at # None
          /\ old.updated_at # None => Val(new.updated_at) >= Val(old.updated_at)
  /\ \A item_id \in StoreKeys(_fake_items_db) :
       LET r == update_item(_fake_items_db, EmptyDict, item_id, clock)
           old == StoreGet(_fake_items_db, item_id)
           new == StoreGet(r.db, item_id)
       IN /\ r.resp.status = 200
          /\ [new EXCEPT !.updated_at = None] = [old EXCEPT !.updated_at = None]
          /\ new.updated_at # None
          /\ old.updated_at # None => Val(new.updated_at) >= Val(old.updated_at)

\* One step of a store, db to db2, seen by updated_at: a record enters the
\* store with updated_at null; a null updated_at gets a value only in a step
\* that is an update or archive of that record answering 200; such a step
\* sets it to the current time; a value never decreases or goes back to null.
UpdatedAtStep(db, db2, ops) ==
  \A k \in StoreKeys(db2) :
    LET new == StoreGet(db2, k)
        succeeded == /\ clock' = clock
                     /\ resp'.op \in ops /\ resp'.id = k /\ resp'.status = 200
    IN IF k \notin StoreKeys(db) THEN new.updated_at = None
       ELSE LET old == StoreGet(db, k)
            IN /\ (old.updated_at = None /\ new.updated_at # None) => succeeded
               /\ succeeded => new.updated_at = Some(clock)
               /\ old.updated_at # None =>
                     /\ new.updated_at # None
                     /\ Val(new.updated_at) >= Val(old.updated_at)

\* C11: updated_at of a stored record is null exactly as long as no update or
\* archive on it has succeeded since its creation; every successful update
\* or archive sets it to the current time (also with values equal to the
\* stored ones); it never decreases and is never reset to null.
C11_UpdatedAtTracksSuccess ==
  [][/\ UpdatedAtStep(_fake_users_db, _fake_users_db', {"update_user"})
     /\ UpdatedAtStep(_fake_items_db, _fake_items_db', {"update_item", "archive_item"})]_vars

\* One step of a store, db to db2, seen by id and created_at: every record
\* is stored under its id, and a record that stays in the store keeps its id
\* and its created_at.
KeepsIdentity(db, db2) ==
  \A k \in StoreKeys(db2) :
    /\ StoreGet(db2, k).id = k
    /\ k \in StoreKeys(db) =>
         /\ StoreGet(db2, k).id = StoreGet(db, k).id
         /\ StoreGet(db2, k).created_at = StoreGet(db, k).created_at

\* C12: through every request (update with any body, a body that carries id
\* and created_at included, and archive) a stored record keeps the id and the
\* created_at it got at creation, and its id field equals its key.
C12_IdAndCreatedAtImmutable ==
  [][/\ KeepsIdentity(_fake_users_db, _fake_users_db')
     /\ KeepsIdentity(_fake_items_db, _fake_items_db')]_vars

\* an update whose body carried id and created_at answered 200, later than
\* the creation, and the record is still stored under its id
C12_Witness ==
  /\ resp.op = "update_item" /\ resp.status = 200
  /\ req = [id |-> 9, created_at |-> 7, owner_id |-> 9]
  /\ resp.id \in StoreKeys(_fake_items_db)
  /\ StoreGet(_fake_items_db, resp.id).id = resp.id
  /\ StoreGet(_fake_items_db, resp.id).created_at < clock
  /\ StoreGet(_fake_items_db, resp.id).updated_at = Some(clock)

\* the fields of a stored item other than status and updated_at
ItemFieldsKeptByArchive == ItemResponseFields \ {"status", "updated_at"}

\* C13: archive on an existing item sets status to archived and updated_at to
\* the current time, keeps the item in the store so that a following get
\* returns it, and leaves the other fields unchanged (also when the item is
\* archived already); archive on an absent id fails with 404 Item not found.
C13_ArchiveItem ==
  \A item_id \in ItemIds :
    LET r == archive_item(_fake_items_db, item_id, clock)
    IN IF item_id \notin StoreKeys(_fake_items_db)
       THEN /\ r.resp = HTTPException("archive_item", item_id, 404, "Item not found")
            /\ r.db = _fake_items_db
       ELSE LET old == StoreGet(_fake_items_db, item_id)
                new == StoreGet(r.db, item_id)
            IN /\ r.resp.status = 200
               /\ StoreKeys(r.db) = StoreKeys(_fake_items_db)
               /\ new.status = Some("archived")
               /\ new.updated_at = Some(clock)
               /\ \A f \in ItemFieldsKeptByArchive : new[f] = old[f]
               /\ get_item(r.db, item_id).status = 200
               /\ get_item(r.db, item_id).body = r.resp.body

\* C14: an archived item is hidden from normal listings: a list_items call
\* without a status filter returns no item whose status is archived.
C14_ArchivedHiddenFromListings ==
  \A q \in ItemListProbes :
    "status" \notin DOMAIN q.filters =>
      LET r == list_items(_fake_items_db, PaginationParams(q.pagination),
                          ItemFilterParams(q.filters))
      IN r.status = 200 =>
           \A j \in DOMAIN r.body.items :
              r.body.items[j].status # Some(ItemStatus("archived"))

\* the create bodies of the model, and the same with another password
UserPasswordProbes ==
  UserCreateRequests \cup
    {[r EXCEPT !.password = Some("hunter22pw")] : r \in UserCreateRequests}

\* C15: a password given to create_user or update_user is never stored and
\* never returned: no stored user and no answer has a password field, after
\* any create and any update, and an update that supplies only a password
\* changes nothing in the store but updated_at of that record.
C15_PasswordNeverStored ==
  /\ \A i \in DOMAIN _fake_users_db : "password" \notin DOMAIN _fake_users_db[i].val
  /\ resp.op \in {"create_user", "get_user", "update_user"} =>
       "password" \notin DOMAIN resp.body
  /\ \A raw \in UserPasswordProbes :
       LET r == create_user(_fake_users_db, _user_id_counter, UserCreate(raw), clock)
       IN /\ \A i \in DOMAIN r.db : "password" \notin DOMAIN r.db[i].val
          /\ "password" \notin DOMAIN r.resp.body
  /\ \A user_id \in StoreKeys(_fake_users_db) :
       \A pw \in {"newsecret1", "hunter22pw"} :
         LET r == update_user(_fake_users_db, UserUpdate([password |-> Some(pw)]),
                              user_id, clock)
         IN /\ "password" \notin DOMAIN r.resp.body
            /\ r.db = StoreSet(_fake_users_db, user_id,
                               [StoreGet(_fake_users_db, user_id)
                                  EXCEPT !.updated_at = Some(clock)])

\* an update that supplied only a password answered 200 later than the
\* creation of the record
C15_Witness ==
  /\ resp.op = "update_user" /\ resp.status = 200
  /\ req = [password |-> Some("newsecret1")]
  /\ resp.body.updated_at = Some(clock)
  /\ resp.body.created_at < clock

\* the predicates of a filter that are present, on one stored item
SatisfiesItemFilters(i, f) ==
  /\ f.status # None => i.status = Some(Val(f.status).value)
  /\ f.owner_id # None => i.owner_id = Val(f.owner_id)
  /\ f.min_price # None =>
       i.price # None /\ Val(i.price).cents >= Val(f.min_price).cents
  /\ f.max_price # None =>
       i.price # None /\ Val(i.price).cents <= Val(f.max_price).cents
  /\ f.tag # None =>
       i.tags # None /\ \E j \in DOMAIN Val(i.tags) : Val(i.tags)[j] = Val(f.tag)

\* C16: list_items returns, before paging, exactly the stored items that
\* satisfy every present predicate: for every query the answer is 200 and
\* total is the number of those items, and with the widest page the items
\* returned are those items; an absent predicate excludes nothing, and
\* min_price = 0 is a present predicate.
C16_ListItemsFilters ==
  \A q \in ItemListProbes :
    LET f == ItemFilterParams(q.filters)
        r == list_items(_fake_items_db, PaginationParams(q.pagination), f)
        wide == list_items(_fake_items_db, [skip |-> 0, limit |-> 100], f)
        matching == {k \in StoreKeys(_fake_items_db) :
                       SatisfiesItemFilters(StoreGet(_fake_items_db, k), f)}
    IN /\ r.status = 200
       /\ r.body.total = Cardinality(matching)
       /\ wide.status = 200
       /\ {wide.body.items[j].id : j \in DOMAIN wide.body.items} = matching
       /\ Len(wide.body.items) = Cardinality(matching)

\* min(limit, max(0, total - skip))
SliceLength(total, skip, limit) ==
  LET rest == IF total - skip > 0 THEN total - skip ELSE 0
  IN IF limit < rest THEN limit ELSE rest

\* the answer r to a list query with skip and limit, against the answer wide
\* to the same filter with skip 0 and limit 100 (which holds the whole
\* filtered sequence xs): the same total, the number of filtered records,
\* and the contiguous run of xs from position skip, of the stated length
PagedAnswer(r, wide, p, field) ==
  /\ r.status = 200 /\ wide.status = 200
  /\ LET xs == wide.body[field]
         total == Len(xs)
         n == SliceLength(total, p.skip, p.limit)
     IN /\ wide.body.total = total
        /\ r.body.total = total
        /\ Len(r.body[field]) = n
        /\ \A j \in 1..n : r.body[field][j] = xs[p.skip + j]
        /\ p.skip >= total => r.body[field] = <<>>

\* C17: for list_items and list_users with skip >= 0 and 1 <= limit <= 100,
\* total is the number of records that pass the filter, whatever skip and
\* limit are, and the slice returned is the contiguous run of the filtered
\* sequence from position skip, of length min(limit, max(0, total - skip));
\* a skip at or beyond total gives an empty slice, the same total, no error.
C17_Pagination ==
  /\ \A q \in ItemListProbes :
       LET f == ItemFilterParams(q.filters)
           p == PaginationParams(q.pagination)
       IN PagedAnswer(list_items(_fake_items_db, p, f),
                      list_items(_fake_items_db, [skip |-> 0, limit |-> 100], f),
                      p, "items")
  /\ \A q \in UserListProbes :
       LET f == UserFilterParams(q.filters)
           p == PaginationParams(q.pagination)
       IN PagedAnswer(list_users(_fake_users_db, p, f),
                      list_users(_fake_users_db, [skip |-> 0, limit |-> 100], f),
                      p, "users")

\* C19: in every reachable state the status of every stored item is one of
\* draft, active, archived, whatever create_item, update_item (bodies with an
\* explicit null status included) and archive_item calls led there; an item
\* created without a status has status draft.
C19_StoredStatusIsAStatus ==
  /\ \A i \in DOMAIN _fake_items_db :
       _fake_items_db[i].val.status \in {Some(v) : v \in ItemStatusValues}
  /\ \A raw \in ItemCreateRequests :
       "status" \notin DOMAIN raw =>
         LET r == create_item(_fake_items_db, _item_id_counter, ItemCreate(raw), clock)
         IN /\ StoreGet(r.db, r.counter).status = Some("draft")
            /\ r.resp.body.status = Some(ItemStatus("draft"))

\* <<1, 2, ..., n>>
Counting(n) == [k \in 1..n |-> k]

\* C20: for each store the ids handed out are exactly 1, 2, 3, ... in order:
\* the k-th successful create returns k, the counter is the number of
\* successful creates (no get, list, update, archive, delete or failed
\* create has consumed an id), and a create_user that fails with a conflict
\* leaves the counter as it was.
C20_IdsAreOneTwoThree ==
  /\ issued.users = Counting(_user_id_counter)
  /\ issued.items = Counting(_item_id_counter)
  /\ \A raw \in UserCreateProbes :
       LET r == create_user(_fake_users_db, _user_id_counter, UserCreate(raw), clock)
       IN IF r.resp.status = 201
          THEN r.resp.body.id = Len(issued.users) + 1 /\ r.counter = _user_id_counter + 1
          ELSE r.counter = _user_id_counter
  /\ \A raw \in ItemCreateRequests :
       LET r == create_item(_fake_items_db, _item_id_counter, ItemCreate(raw), clock)
       IN r.resp.body.id = Len(issued.items) + 1 /\ r.counter = _item_id_counter + 1

\* a create_user failed with a conflict after one create succeeded, and the
\* counter still stands at 1
C20_Witness ==
  /\ resp.op = "create_user" /\ resp.status = 400
  /\ issued.users = <<1>>
  /\ _user_id_counter = 1

NoTwoEqual(ids) == \A i, j \in DOMAIN ids : i # j => ids[i] # ids[j]

NoTwoUsersAlike(db) ==
  \A i, j \in DOMAIN db :
    i # j => /\ db[i].val.email # db[j].val.email
             /\ db[i].val.username # db[j].val.username

\* db2 is db with one record more, stored under id, and nothing else changed
OneMore(db, db2, id) ==
  /\ id \notin StoreKeys(db)
  /\ StoreKeys(db2) = StoreKeys(db) \cup {id}
  /\ \A k \in StoreKeys(db) : StoreGet(db2, k) = StoreGet(db, k)

\* db2 is db with the fields of body (the password left out) merged into the
\* record of id and its updated_at set, and nothing else changed: whatever
\* earlier requests wrote is still there
Merged(db, db2, id, body, now) ==
  /\ StoreKeys(db2) = StoreKeys(db)
  /\ \A k \in StoreKeys(db) :
       \A f \in UserResponseFields :
          StoreGet(db2, k)[f] =
            IF k = id /\ f \in (DOMAIN body) \ {"password"} THEN body[f]
            ELSE IF k = id /\ f = "updated_at" THEN Some(now)
            ELSE StoreGet(db, k)[f]

\* the step in which the handler of connection c returns, against the store
\* as it is right before that step
AsIfLocked(c) ==
  LET q == inflight[c].request
      code == inflight'[c].status
  IN CASE q.op = "create_user" ->
            IF code = 201
            THEN OneMore(_fake_users_db, _fake_users_db', resp'.body.id)
            ELSE code = 400 /\ _fake_users_db' = _fake_users_db
       [] q.op = "update_user" ->
            IF code = 200
            THEN Merged(_fake_users_db, _fake_users_db', q.id, q.body, clock)
            ELSE code \in {400, 404} /\ _fake_users_db' = _fake_users_db
       [] q.op = "create_item" ->
            code = 201 /\ OneMore(_fake_items_db, _fake_items_db', resp'.body.id)

\* C18: with requests in flight at the same time, every create and every
\* update takes effect as if one lock were held from its first check to its
\* write: in every interleaving no two successful creates of a store return
\* the same id, no two stored users have the same email or the same
\* username, and a successful update changes only its own fields of its own
\* record in the store as it is then, so no earlier successful write is lost.
C18_HandlersTakeEffectAtomically ==
  [][/\ NoTwoEqual(issued.users)' /\ NoTwoEqual(issued.items)'
     /\ NoTwoUsersAlike(_fake_users_db)'
     /\ \A c \in Clients :
          (Running(c) /\ inflight'[c].phase = "answered") => AsIfLocked(c)]_vars

\* two creates with the same email were in flight together: one was answered
\* 201, the other, accepted before the first was handled, 400
C18_Witness ==
  \E c, d \in Clients :
    /\ c # d
    /\ inflight[c].phase = "answered" /\ inflight[d].phase = "answered"
    /\ inflight[c].request.op = "create_user" /\ inflight[d].request.op = "create_user"
    /\ inflight[c].status = 201 /\ inflight[d].status = 400
    /\ inflight[d].overlapped
    /\ Len(_fake_users_db) = 1

\* the history holds, after position i, an update_item of item_id whose body
\* supplies a status, or a delete_item of item_id
StatusSetAfter(i, item_id) ==
  \E j \in DOMAIN log :
    /\ j > i
    /\ log[j].id = item_id
    /\ \/ log[j].op = "update_item" /\ "status" \in DOMAIN log[j].req
       \/ log[j].op = "delete_item"

\* C21: the item store does not guard status transitions.  From every
\* current status (archived included) an update_item that supplies draft,
\* active or archived stores that status, and answers 200 with it when the
\* record validates; an archived item stays archived as long as no later
\* update_item supplies a status for it.
C21_NoStatusGuard ==
  /\ \A item_id \in StoreKeys(_fake_items_db) :
       \A v \in ItemStatusValues :
         LET r == update_item(_fake_items_db,
                              ItemUpdate([status |-> Some(ItemStatus(v))]),
                              item_id, clock)
             new == StoreGet(r.db, item_id)
         IN /\ new.status = Some(v)
            /\ ItemResponseValid(new) =>
                 /\ r.resp.status = 200
                 /\ r.resp.body.status = Some(ItemStatus(v))
  /\ \A i \in DOMAIN log :
       (/\ log[i].op = "archive_item" /\ log[i].status = 200
        /\ log[i].id \in StoreKeys(_fake_items_db)
        /\ ~StatusSetAfter(i, log[i].id))
         => StoreGet(_fake_items_db, log[i].id).status = Some("archived")

\* an item was archived and the next request, an update_item with status
\* draft, was answered 200: the item is stored as draft
C21_Witness ==
  /\ Len(log) = 3
  /\ log[2].op = "archive_item" /\ log[2].status = 200
  /\ log[3].op = "update_item" /\ log[3].status = 200 /\ log[3].id = log[2].id
  /\ log[3].req = [status |-> Some(ItemStatus("draft"))]
  /\ StoreGet(_fake_items_db, log[3].id).status = Some("draft")
  /\ resp.body.status = Some(ItemStatus("draft"))

\* ids is strictly ascending
Ascending(ids) == \A i, j \in DOMAIN ids : i < j => ids[i] < ids[j]

\* the ids of the records a list answer holds, in the order of the answer
ReturnedIds(r, field) == [j \in DOMAIN r.body[field] |-> r.body[field][j].id]

\* the keys of a store, in the order in which it holds them
StoredIds(db) == [i \in DOMAIN db |-> db[i].key]

\* xs without the elements outside keep, in the order of xs
Only(xs, keep) == SelectSeq(xs, LAMBDA x : x \in keep)

\* a list answer holds its records in the order of the store
InStoredOrder(r, field, db) ==
  r.status = 200 =>
    LET ids == ReturnedIds(r, field)
    IN /\ Ascending(ids)
       /\ ids = Only(StoredIds(db), {ids[j] : j \in DOMAIN ids})

\* the pages on which more than one record can come back
OrderPaginations ==
  {EmptyDict, [skip |-> 0, limit |-> 100], [skip |-> 1, limit |-> 10]}

\* C22: list_items and list_users return the records that pass the filter
\* in the order in which they are stored, and that order is ascending id in
\* every reachable state, whatever updates, archives and deletes came before
\* (so the records that remain never change their relative order).
C22_ListsKeepStoredOrder ==
  /\ Ascending(StoredIds(_fake_users_db))
  /\ Ascending(StoredIds(_fake_items_db))
  /\ \A p \in OrderPaginations : \A f \in ItemFilters :
       InStoredOrder(list_items(_fake_items_db, PaginationParams(p),
                                ItemFilterParams(f)),
                     "items", _fake_items_db)
  /\ \A p \in OrderPaginations : \A f \in UserFilters :
       InStoredOrder(list_users(_fake_users_db, PaginationParams(p),
                                UserFilterParams(f)),
                     "users", _fake_users_db)

\* list_items returned items 1 and 2 in this order after item 1 was updated
\* or archived later than item 2 was created
C22_Witness ==
  /\ resp.op = "list_items" /\ resp.status = 200
  /\ ReturnedIds(resp, "items") = <<1, 2>>
  /\ StoreGet(_fake_items_db, 1).updated_at = Some(1)
  /\ StoreGet(_fake_items_db, 2).created_at = 0

UserOps == {"create_user", "get_user", "update_user", "delete_user", "list_users"}
ItemOps == {"create_item", "get_item", "update_item", "delete_item", "archive_item",
            "list_items"}

\* the owners the stored items name
StoredOwners == {_fake_items_db[i].val.owner_id : i \in DOMAIN _fake_items_db}

\* C23: the user store and the item store are independent.  A step of an item
\* route leaves the user store and the user counter as they were, a step of a
\* user route leaves the item store and the item counter as they were;
\* create_item answers 201 whether or not a stored user has its owner_id, and
\* delete_user leaves the items that carry the deleted id stored, unchanged.
C23_StoresAreIndependent ==
  [][/\ resp'.op \in ItemOps => UNCHANGED <<_fake_users_db, _user_id_counter>>
     /\ resp'.op \in UserOps => UNCHANGED <<_fake_items_db, _item_id_counter>>
     /\ (resp'.op = "create_item" /\ req'.owner_id \notin StoreKeys(_fake_users_db))
          => /\ resp'.status = 201
             /\ resp'.body.owner_id = req'.owner_id
             /\ StoreGet(_fake_items_db', resp'.body.id).owner_id = req'.owner_id
     /\ resp'.op = "delete_user"
          => \A i \in DOMAIN _fake_items_db :
               /\ i \in DOMAIN _fake_items_db'
               /\ _fake_items_db'[i] = _fake_items_db[i]]_vars

\* user 1, the only user there was, has just been deleted, and the two items
\* that name it as their owner are stored
C23_Witness ==
  /\ resp.op = "delete_user" /\ resp.status = 200 /\ resp.id = 1
  /\ issued.users = <<1>> /\ _fake_users_db = <<>>
  /\ StoredIds(_fake_items_db) = <<1, 2>>
  /\ StoredOwners = {1}

\* the stores and the counters of both routers
Stores == <<_fake_users_db, _user_id_counter, _fake_items_db, _item_id_counter>>

\* C25: a request that does not end in success (200 or 201) leaves the stores
\* and the counters exactly as they were: a conflicting create or update, a
\* get, update, delete or archive of an id that is not stored, and an update
\* that fails in any other way change no stored field, not even updated_at.
C25_FailureChangesNothing ==
  [][resp'.status \notin {200, 201} => UNCHANGED Stores]_vars

\* the failures the handlers raise themselves (HTTPException) change nothing
C25_RaisedFailureChangesNothing ==
  [][resp'.status \in {400, 404, 409} => UNCHANGED Stores]_vars

\* request i of the history gave the value v of field to a user
Took(i, field, v) ==
  /\ log[i].op \in {"create_user", "update_user"}
  /\ log[i].status \in {200, 201}
  /\ field \in DOMAIN log[i].req
  /\ log[i].req[field] = Some(v)

\* after request i its user was deleted, or was moved to another value of field
GaveUp(i, field, v) ==
  \E j \in DOMAIN log :
    /\ j > i
    /\ log[j].id = log[i].id
    /\ log[j].status = 200
    /\ \/ log[j].op = "delete_user"
       \/ /\ log[j].op = "update_user"
          /\ field \in DOMAIN log[j].req
          /\ log[j].req[field] # Some(v)

\* no user other than user_id still has the value v it once took
AvailableTo(user_id, field, v) ==
  \A i \in DOMAIN log :
    (Took(i, field, v) /\ log[i].id # user_id) => GaveUp(i, field, v)

\* some user had v and every user that had it has given it up
Released(field, v) ==
  /\ \E i \in DOMAIN log : Took(i, field, v)
  /\ AvailableTo(0, field, v)

C26_WitnessMoved ==
  /\ Len(log) = 3
  /\ log[1].op = "create_user" /\ log[1].status = 201
  /\ log[2].op = "update_user" /\ log[2].status = 200
  /\ "email" \in DOMAIN log[2].req
  /\ log[3].op = "create_user" /\ log[3].status = 201 /\ log[3].id = 2
  /\ log[3].req.email = log[1].req.email
  /\ log[3].req.email # log[2].req.email

\* the records of db other than the record of id, in stored order
Others(db, id) == SelectSeq(db, LAMBDA e : e.key # id)

\* this step is the handling of a request to op (the passing of time is the
\* one step that handles no request, and it keeps the last response)
Handled(op) == resp'.op = op /\ clock' = clock

\* a step that handled an update, archive or delete left every record other
\* than the one it names as it was
OthersUntouched(op, before, after) ==
  Handled(op) => Others(after, resp'.id) = Others(before, resp'.id)

\* a step that handled a successful delete took exactly the record it names
\* out of the store
RemovedOne(op, before, after) ==
  (Handled(op) /\ resp'.status = 200) =>
    /\ resp'.id \in StoreKeys(before)
    /\ StoreKeys(after) = StoreKeys(before) \ {resp'.id}
    /\ Len(after) = Len(before) - 1

\* C27: update, archive and delete of one id change no other record, whatever
\* they answer, and a successful delete removes exactly the record it names;
\* so each store holds as many records as creates succeeded minus deletes
\* that succeeded.
C27_OnlyTheNamedRecord ==
  [][/\ OthersUntouched("update_user", _fake_users_db, _fake_users_db')
     /\ OthersUntouched("delete_user", _fake_users_db, _fake_users_db')
     /\ OthersUntouched("update_item", _fake_items_db, _fake_items_db')
     /\ OthersUntouched("archive_item", _fake_items_db, _fake_items_db')
     /\ OthersUntouched("delete_item", _fake_items_db, _fake_items_db')
     /\ RemovedOne("delete_user", _fake_users_db, _fake_users_db')
     /\ RemovedOne("delete_item", _fake_items_db, _fake_items_db')
     /\ Len(_fake_users_db') = Len(issued'.users) - Cardinality(deleted'.users)
     /\ Len(_fake_items_db') = Len(issued'.items) - Cardinality(deleted'.items)]_vars

\* item 1 of two has just been deleted and item 2, updated or archived
\* before, is the one record stored
C27_Witness ==
  /\ resp.op = "delete_item" /\ resp.status = 200 /\ resp.id = 1
  /\ issued.items = <<1, 2>> /\ deleted.items = {1}
  /\ StoredIds(_fake_items_db) = <<2>>
  /\ StoreGet(_fake_items_db, 2).updated_at # None

ReadOps == {"get_user", "get_item", "list_users", "list_items"}

\* requests i and j of the history are the same read, and nothing but reads
\* was handled from the one to the other
SameReadAgain(h, i, j) ==
  /\ i < j
  /\ h[i].op \in ReadOps
  /\ h[j].op = h[i].op /\ h[j].id = h[i].id /\ h[j].req = h[i].req
  /\ \A k \in i..j : h[k].op \in ReadOps

\* C28: get_user, get_item, list_users and list_items are read-only.  A step
\* that handles one of them, for any id, filter, skip and limit and whatever
\* it answers, leaves both stores and both counters as they were; so a read
\* that is repeated with only reads in between is answered as it was the
\* first time.
C28_ReadsAreReadOnly ==
  [][/\ resp'.op \in ReadOps /\ log' # log => UNCHANGED Stores
     /\ \A i, j \in DOMAIN log' :
          SameReadAgain(log', i, j)
            => log'[j].status = log'[i].status /\ log'[j].body = log'[i].body]_vars

\* an item was created, read, and read again with the same answer, the store
\* still holding it as it was created
C28_Witness ==
  /\ Len(log) = 3
  /\ log[1].op = "create_item" /\ log[1].status = 201
  /\ log[2].op = "get_item" /\ log[2].status = 200 /\ log[2].id = log[1].id
  /\ log[3] = log[2]
  /\ log[3].body = log[1].body
  /\ StoredIds(_fake_items_db) = <<log[1].id>>

\* the addresses f maps to
Range(f) == {f[x] : x \in DOMAIN f}

\* the heap holds the store: the dict of each stored id holds the stored
\* record, and its "tags" refers to a list holding the stored tags
HeapHoldsStore ==
  /\ DOMAIN heap.dict = StoreKeys(_fake_items_db)
  /\ DOMAIN heap.tags = StoreKeys(_fake_items_db)
  /\ \A id \in StoreKeys(_fake_items_db) :
       LET d == StoreGet(_fake_items_db, id)
       IN /\ heap.models[heap.dict[id]] = d
          /\ IF d.tags = None THEN heap.tags[id] = 0
             ELSE /\ heap.tags[id] \in DOMAIN heap.lists
                  /\ heap.lists[heap.tags[id]] = Val(d.tags)

\* C24: a record returned by create, get, list, update or archive is a
\* snapshot.  The returned object is no stored dict, and its tags list is the
\* tags list of no stored dict and of no other returned record; whatever was
\* handled since, the returned object and its tags list still hold what they
\* held when they were returned.
C24_ReturnedRecordsAreSnapshots ==
  /\ HeapHoldsStore
  /\ \A k \in DOMAIN heap.returned :
       LET r == heap.returned[k]
       IN /\ r.at \notin Range(heap.dict)
          /\ r.tags \notin Range(heap.tags)
          /\ \A j \in DOMAIN heap.returned :
               j # k => /\ heap.returned[j].at # r.at
                        /\ heap.returned[j].tags # r.tags
          /\ heap.models[r.at] = r.body
          /\ heap.lists[r.tags] = Val(r.body.tags)

\* item 1 was returned by create with the tag red, then its tags were set to
\* blue by an update that returned it again: the first record still holds red
C24_Witness ==
  /\ Len(heap.returned) >= 2
  /\ heap.returned[1].body.id = 1 /\ heap.returned[2].body.id = 1
  /\ heap.lists[heap.returned[1].tags] = <<"red">>
  /\ heap.lists[heap.returned[2].tags] = <<"blue">>
  /\ heap.returned[2].body.updated_at # None
  /\ StoreGet(_fake_items_db, 1).tags = Some(<<"blue">>)
  /\ resp.op = "update_item" /\ resp.status = 200
====
